---- MODULE Spec2Model ----
(***************************************************************************)
(* A model of merge_macros.py: the trace normaliser, the per-trace          *)
(* humanisation stages, the AFK budget, the timeline merge, the            *)
(* GlobalFileSelector rotation and generate_version_for_folder / main.     *)
(*                                                                         *)
(* Times are integer milliseconds.  An event is a record                   *)
(*   [id, Type, Time, X, Y, PROTECTED]                                     *)
(* where id stands for the pass-through fields that identify a recorded    *)
(* event (0 for an event synthesised by add_desktop_mouse_paths).          *)
(* Every draw from rng is an existentially chosen input of the action      *)
(* that makes the draw; wide integer ranges are sampled by the small sets  *)
(* named below.                                                            *)
(***************************************************************************)
EXTENDS Integers, Sequences, FiniteSets, TLC

VARIABLES
  \* ---- laboratory for the pure functions -------------------------------
  lab_pc,        \* "off" | "in" | "once" | "twice" | "done", or the stage applied
  lab_in,        \* first argument  (an event list)
  lab_in2,       \* second argument (an event list)
  lab_gap,       \* integer argument (pause_ms)
  lab_out,       \* result of the first application
  lab_out2,      \* result of the second application
  \* ---- the environment of one run of main ------------------------------
  names_bound,   \* are the free names is_special, file_stats_list, fpath_obj,
                 \* final_files of generate_version_for_folder bound?
  is_special,    \* the value of is_special when it is bound
  is_time_sensitive,  \* is_time_sensitive_folder(folder_path)
  is_desktop,    \* "deskt" in str(folder_path).lower()
  exemption_config,   \* load_exemption_config()
  exclude_count, \* args.exclude_count
  target_minutes,     \* args.target_minutes
  \* ---- GlobalFileSelector ----------------------------------------------
  all_files,     \* self.all_files (a sequence of file ids)
  current_pool,  \* self.current_pool
  global_used_files,  \* self.global_used_files
  selected_for_this_merge, estimated_total, used_in_this_merge,
  drawn_since_refill, \* history: the files drawn since the rotation was last
                      \* (re)filled, in the order drawn
  refill_missing,     \* history: files not yet drawn when the last refill happened
  \* ---- generate_version_for_folder -------------------------------------
  pc, final_selected_files, excluded_list, i, events, macro_duration_ms,
  zb_evs,        \* zb_evs / intra_evs: the trace being humanised
  file_added_afk, pause_ms, all_events, total_duration_ms, total_pause_ms,
  manifest_parts,
  \* ---- main ------------------------------------------------------------
  v,             \* the version being generated
  result,        \* what generate_version_for_folder returned
  written        \* the merged event lists main wrote

labVars == <<lab_pc, lab_in, lab_in2, lab_gap, lab_out, lab_out2>>

envVars == <<names_bound, is_special, is_time_sensitive, is_desktop,
             exemption_config, exclude_count, target_minutes>>

selVars == <<all_files, current_pool, global_used_files, selected_for_this_merge,
             estimated_total, used_in_this_merge, drawn_since_refill, refill_missing>>

genVars == <<pc, final_selected_files, excluded_list, i, events, macro_duration_ms,
             zb_evs, file_added_afk, pause_ms, all_events, total_duration_ms,
             total_pause_ms, manifest_parts>>

mainVars == <<v, result, written>>

progVars == <<envVars, selVars, genVars, mainVars>>

vars == <<labVars, progVars>>

\* ------------------------------------------------------------------------
\* Small helpers
\* ------------------------------------------------------------------------
Min2(a, b) == IF a <= b THEN a ELSE b
Max2(a, b) == IF a >= b THEN a ELSE b
SetMax(S) == CHOOSE x \in S : \A y \in S : y <= x
SetMin(S) == CHOOSE x \in S : \A y \in S : x <= y

\* All sequences over S of length 0..n
RECURSIVE SeqsUpTo(_, _)
SeqsUpTo(S, n) ==
  IF n = 0 THEN {<<>>}
  ELSE LET shorter == SeqsUpTo(S, n - 1)
       IN shorter \cup {Append(s, x) : s \in {t \in shorter : Len(t) = n - 1}, x \in S}

\* ------------------------------------------------------------------------
\* Event types.  The code tests Type by substring; on the universe of types
\* used here each substring test is the membership test written next to it.
\* ------------------------------------------------------------------------
KeyTypes == {"KeyUp", "KeyDown"}

\* preserve_click_integrity: any(t in Type for t in ['MouseDown', 'MouseUp',
\* 'LeftDown', 'LeftUp', 'RightDown', 'RightUp', 'DragStart', 'DragEnd',
\* 'Click', 'LeftClick', 'RightClick', 'Button'])
ProtectedTypes ==
  {"MouseDown", "MouseUp", "LeftDown", "LeftUp", "RightDown", "RightUp",
   "DragStart", "DragEnd", "Click", "LeftClick", "RightClick", "Button"}

\* add_reaction_variance: any(t in Type for t in ['Click', 'Down', 'Up'])
ClickDownUpTypes ==
  {"MouseDown", "MouseUp", "LeftDown", "LeftUp", "RightDown", "RightUp",
   "Click", "LeftClick", "RightClick", "KeyDown", "KeyUp"}

\* add_mouse_jitter: any(t in Type for t in ['Click', 'LeftClick',
\* 'DragStart', 'DragEnd', 'button'])
JitterClickTypes == {"Click", "LeftClick", "RightClick", "DragStart", "DragEnd"}

Ev(id, type, time, x, y) ==
  [id |-> id, Type |-> type, Time |-> time, X |-> x, Y |-> y, PROTECTED |-> FALSE]

Times(evs) == [k \in 1..Len(evs) |-> evs[k].Time]
Ids(evs) == [k \in 1..Len(evs) |-> evs[k].id]

Monotone(evs) == \A k \in 1..(Len(evs) - 1) : evs[k].Time <= evs[k + 1].Time

\* ------------------------------------------------------------------------
\* process_macro_file
\* ------------------------------------------------------------------------
\* A plausible slip: the list is left in the order it has.
SortByTimeNot(evs) == evs

\* list.sort(key=(Time, idx)): a stable sort by Time.
RECURSIVE InsertByTime(_, _)
InsertByTime(sorted, e) ==
  IF sorted = <<>> THEN <<e>>
  ELSE IF Head(sorted).Time <= e.Time
       THEN <<Head(sorted)>> \o InsertByTime(Tail(sorted), e)
       ELSE <<e>> \o sorted

RECURSIVE SortByTime(_)
SortByTime(evs) ==
  IF evs = <<>> THEN <<>>
  ELSE InsertByTime(SortByTime(SubSeq(evs, 1, Len(evs) - 1)), evs[Len(evs)])

\* ne["Time"] = t - min_t for every event
ShiftToMin(sorted) ==
  [k \in 1..Len(sorted) |-> [sorted[k] EXCEPT !.Time = @ - sorted[1].Time]]

\* The for loop of lines 156-163: the 0-based index of the first event that is
\* not a KeyUp/KeyDown, or len(shifted) when every event is one.
FirstSignificantIndex(shifted) ==
  IF \E k \in 1..Len(shifted) : shifted[k].Type \notin KeyTypes
  THEN (CHOOSE k \in 1..Len(shifted) :
          /\ shifted[k].Type \notin KeyTypes
          /\ \A j \in 1..(k - 1) : shifted[j].Type \in KeyTypes) - 1
  ELSE Len(shifted)

process_macro_file(evs) ==
  IF evs = <<>> THEN [events |-> <<>>, duration_ms |-> 0]
  ELSE LET shifted == ShiftToMin(SortByTime(evs))
           cleaned == SubSeq(shifted, FirstSignificantIndex(shifted) + 1, Len(shifted))
       IN [events |-> cleaned,
           duration_ms |-> IF cleaned = <<>> THEN 0 ELSE cleaned[Len(cleaned)].Time]

\* ------------------------------------------------------------------------
\* merge_events_with_pauses
\* ------------------------------------------------------------------------
\* A plausible slip: the start time of the new trace is not subtracted.
MergeTimeShiftNoStart(base_events, new_events, gap_ms) ==
  (IF base_events = <<>> THEN 0 ELSE base_events[Len(base_events)].Time) + gap_ms

\* time_shift = last_time + pause_ms - new_macro_start_time
MergeTimeShift(base_events, new_events, gap_ms) ==
  (IF base_events = <<>> THEN 0 ELSE base_events[Len(base_events)].Time)
    + gap_ms - new_events[1].Time

merge_events_with_pauses(base_events, new_events, gap_ms) ==
  IF new_events = <<>> THEN base_events
  ELSE LET time_shift == MergeTimeShift(base_events, new_events, gap_ms)
       IN base_events \o
          [k \in 1..Len(new_events) |-> [new_events[k] EXCEPT !.Time = @ + time_shift]]

\* ------------------------------------------------------------------------
\* preserve_click_integrity, is_protected_event
\* ------------------------------------------------------------------------
preserve_click_integrity(evs) ==
  [k \in 1..Len(evs) |->
     IF evs[k].Type \in ProtectedTypes THEN [evs[k] EXCEPT !.PROTECTED = TRUE]
     ELSE evs[k]]

is_protected_event(e) == e.PROTECTED

\* is_protected_event(preserve_click_integrity([e])[0]), the test by which the
\* pause stages and add_desktop_mouse_paths collect click_times
IsClick(e) == e.PROTECTED \/ e.Type \in ProtectedTypes

ClickTimes(evs) == {evs[k].Time : k \in {j \in 1..Len(evs) : IsClick(evs[j])}}

\* ------------------------------------------------------------------------
\* calculate_afk_budget: max(0, int(total * 2 / 3 - current))
\* ------------------------------------------------------------------------
\* A plausible slip: the budget is floored at one second instead of at zero.
AfkBudgetFlooredAtOneSecond(total_event_time_ms, current_afk_time_ms) ==
  Max2(1000, (2 * total_event_time_ms - 3 * current_afk_time_ms) \div 3)

calculate_afk_budget(total_event_time_ms, current_afk_time_ms) ==
  IF 2 * total_event_time_ms - 3 * current_afk_time_ms <= 0 THEN 0
  ELSE (2 * total_event_time_ms - 3 * current_afk_time_ms) \div 3

\* ------------------------------------------------------------------------
\* add_mouse_jitter: jit maps each jittered index to the pair of
\* rng.choice([-1, 0, 1]) draws
\* ------------------------------------------------------------------------
JitterRange == {-1, 0, 1}

JitterIndexes(evs) ==
  {k \in 1..Len(evs) : ~is_protected_event(evs[k]) /\ evs[k].Type \in JitterClickTypes}

add_mouse_jitter(evs, jit) ==
  [k \in 1..Len(evs) |->
     IF k \in JitterIndexes(evs)
     THEN [evs[k] EXCEPT !.X = @ + jit[k][1], !.Y = @ + jit[k][2]]
     ELSE evs[k]]

\* ------------------------------------------------------------------------
\* add_reaction_variance: d[k] = 0 when rng.random() >= 0.3 at event k,
\* otherwise the rng.randint(200, 600) drawn there
\* ------------------------------------------------------------------------
VarianceDeltas == {200, 600}

\* the events at which rng is drawn from at all (lines 320-333)
VarianceIndexes(evs) ==
  {k \in 2..Len(evs) :
     ~is_protected_event(evs[k]) /\ evs[k].Type \notin ClickDownUpTypes}

RECURSIVE ReactionFrom(_, _, _, _)
ReactionFrom(evs, d, k, prev_event_time) ==
  IF k > Len(evs) THEN <<>>
  ELSE IF is_protected_event(evs[k]) \/ evs[k].Type \in ClickDownUpTypes
       THEN <<evs[k]>> \o ReactionFrom(evs, d, k + 1, evs[k].Time)
       ELSE LET t == IF k > 1 /\ d[k] # 0 /\ evs[k].Time - prev_event_time >= 500
                     THEN evs[k].Time + d[k] ELSE evs[k].Time
            IN <<[evs[k] EXCEPT !.Time = t]>> \o ReactionFrom(evs, d, k + 1, t)

add_reaction_variance(evs, d) == ReactionFrom(evs, d, 1, 0)

\* ------------------------------------------------------------------------
\* Pause insertion.  A location g (1-based) is the gap after event g: the
\* code's gap_idx is g - 1 and it shifts every event after it.
\* ------------------------------------------------------------------------
ShiftAfter(evs, g, amount) ==
  [k \in 1..Len(evs) |-> IF k > g THEN [evs[k] EXCEPT !.Time = @ + amount] ELSE evs[k]]

\* add_time_of_day_fatigue, lines 374-382
FatigueSafeLocations(evs) ==
  {g \in 1..(Len(evs) - 1) :
     \A ct \in ClickTimes(evs) : ~(evs[g].Time - ct < 1000 /\ evs[g].Time - ct > -100)}

\* lines 390-397, over sorted(pause_locations, reverse=True)
RECURSIVE FatigueApply(_, _, _, _)
FatigueApply(evs, locs, base_pause, max_pause_ms) ==
  IF locs = {} THEN [events |-> evs, added |-> 0]
  ELSE LET g == SetMax(locs)
           actual_pause == Min2(base_pause[g], max_pause_ms)
           rest == FatigueApply(ShiftAfter(evs, g, actual_pause), locs \ {g}, base_pause,
                                Max2(0, max_pause_ms - actual_pause))
       IN [events |-> rest.events, added |-> actual_pause + rest.added]

\* skip: is_time_sensitive or rng.random() < 0.20; locs: rng.sample of the safe
\* locations (empty when num_pauses is 0); base_pause[g]: rng.randint(0, 72000)
add_time_of_day_fatigue(evs, skip, locs, base_pause, max_pause_ms) ==
  IF evs = <<>> \/ skip \/ Len(evs) < 2 \/ locs = {}
  THEN [events |-> evs, added |-> 0]
  ELSE FatigueApply(evs, locs, base_pause, max_pause_ms)

\* insert_intra_pauses, lines 413-421
IntraSafeLocations(evs) ==
  {g \in 1..(Len(evs) - 1) :
     \A ct \in ClickTimes(evs) :
        ~(evs[g].Time - ct < 1000 /\ ct - evs[g].Time < 1000)}

\* lines 429-437, over sorted(chosen)
RECURSIVE IntraApply(_, _, _, _)
IntraApply(evs, locs, raw_pause, max_allowed_total_afk) ==
  IF locs = {} THEN [events |-> evs, added |-> 0]
  ELSE LET g == SetMin(locs)
           p_ms == Min2(raw_pause[g], max_allowed_total_afk)
           rest == IntraApply(ShiftAfter(evs, g, p_ms), locs \ {g}, raw_pause,
                              Max2(0, max_allowed_total_afk - p_ms))
       IN [events |-> rest.events, added |-> p_ms + rest.added]

\* time_sensitive: the is_time_sensitive argument (the function returns its
\* input unless it is true); added: sum of pauses_info's pause_ms
insert_intra_pauses(evs, time_sensitive, locs, raw_pause, max_allowed_total_afk) ==
  IF evs = <<>> \/ Len(evs) < 2 \/ ~time_sensitive \/ locs = {}
  THEN [events |-> evs, added |-> 0]
  ELSE IntraApply(evs, locs, raw_pause, max_allowed_total_afk)

\* add_afk_pause: insert_idx is the 0-based rng.randint(len // 4, 3 * len // 4)
AfkInsertIndexes(evs) ==
  IF Len(evs) > 1 THEN (Len(evs) \div 4)..((3 * Len(evs)) \div 4) ELSE {0}

add_afk_pause(evs, afk_seconds, insert_idx, max_allowed_ms) ==
  IF evs = <<>> \/ max_allowed_ms <= 0 THEN [events |-> evs, added |-> 0]
  ELSE LET afk_ms == Min2(afk_seconds * 1000, max_allowed_ms)
       IN IF afk_ms <= 0 THEN [events |-> evs, added |-> 0]
          ELSE [events |-> ShiftAfter(evs, insert_idx, afk_ms), added |-> afk_ms]

\* ------------------------------------------------------------------------
\* add_desktop_mouse_paths: num_points[k] is the rng.randint(2, 3) drawn at
\* event k, noise[p] the pair of rng.randint(-2, 2) drawn for point p
\* ------------------------------------------------------------------------
SAFE_DISTANCE_MS == 120000

\* int(): truncation toward zero of n / d, d > 0
Trunc(n, d) == IF n >= 0 THEN n \div d ELSE -((-n) \div d)

\* the index of the MouseMove that set last_x, last_y before event k (0: none)
LastMoveBefore(evs, k) ==
  LET moves == {j \in 1..(k - 1) : evs[j].Type = "MouseMove"}
  IN IF moves = {} THEN 0 ELSE SetMax(moves)

\* min(int(100 + distance * 0.2), 300) for distance = sqrt(dist2)
MovementDuration(dist2) ==
  100 + (CHOOSE q \in 0..200 :
           25 * q * q <= dist2 /\ (q = 200 \/ 25 * (q + 1) * (q + 1) > dist2))

\* lines 286-295: the guard under which points are inserted before event k
PathInsertsAt(evs, k) ==
  /\ evs[k].Type = "MouseMove"
  /\ LastMoveBefore(evs, k) # 0
  /\ LET last == evs[LastMoveBefore(evs, k)]
         dist2 == (evs[k].X - last.X) * (evs[k].X - last.X)
                    + (evs[k].Y - last.Y) * (evs[k].Y - last.Y)
     IN /\ dist2 > 900
        /\ \A ct \in ClickTimes(evs) :
             (IF evs[k].Time >= ct THEN evs[k].Time - ct ELSE ct - evs[k].Time)
               >= SAFE_DISTANCE_MS
        /\ evs[k].Time - evs[k - 1].Time > MovementDuration(dist2) + 50

\* lines 296-305: the points inserted before event k
PathPoints(evs, k, n, noise) ==
  LET last == evs[LastMoveBefore(evs, k)]
      dx == evs[k].X - last.X
      dy == evs[k].Y - last.Y
      movement_duration == MovementDuration(dx * dx + dy * dy)
      movement_start == evs[k].Time - movement_duration
      den == (n + 1) * (n + 1) * (n + 1)
      num(p) == p * p * (3 * (n + 1) - 2 * p)
      point_time(p) ==
        Max2(evs[k - 1].Time + 1,
             Min2(movement_start + (movement_duration * num(p)) \div den,
                  evs[k].Time - 1))
  IN [p \in 1..n |->
        [id |-> 0, Type |-> "MouseMove", Time |-> point_time(p),
         X |-> Trunc((last.X + noise[p][1]) * den + dx * num(p), den),
         Y |-> Trunc((last.Y + noise[p][2]) * den + dy * num(p), den),
         PROTECTED |-> FALSE]]

RECURSIVE PathsFrom(_, _, _, _)
PathsFrom(evs, k, num_points, noise) ==
  IF k > Len(evs) THEN <<>>
  ELSE (IF PathInsertsAt(evs, k) THEN PathPoints(evs, k, num_points[k], noise) ELSE <<>>)
         \o <<evs[k]>> \o PathsFrom(evs, k + 1, num_points, noise)

add_desktop_mouse_paths(evs, num_points, noise) ==
  IF evs = <<>> \/ ClickTimes(evs) = {} THEN evs
  ELSE PathsFrom(evs, 1, num_points, noise)

\* ------------------------------------------------------------------------
\* The program's variables while only a pure function is exercised
\* ------------------------------------------------------------------------
NoResult == [returned |-> FALSE, merged_fname |-> FALSE, merged_events |-> <<>>]

ProgOff ==
  /\ names_bound = FALSE /\ is_special = FALSE /\ is_time_sensitive = FALSE
  /\ is_desktop = FALSE
  /\ exemption_config = [auto_detect_time_sensitive |-> TRUE,
                         disable_intra_pauses |-> FALSE,
                         disable_inter_pauses |-> FALSE]
  /\ exclude_count = 0 /\ target_minutes = 0
  /\ all_files = <<>> /\ current_pool = <<>> /\ global_used_files = {}
  /\ selected_for_this_merge = <<>> /\ estimated_total = 0
  /\ used_in_this_merge = {} /\ drawn_since_refill = <<>> /\ refill_missing = {}
  /\ pc = "off" /\ final_selected_files = <<>> /\ excluded_list = <<>> /\ i = 0
  /\ events = <<>> /\ macro_duration_ms = 0 /\ zb_evs = <<>> /\ file_added_afk = 0
  /\ pause_ms = 0 /\ all_events = <<>> /\ total_duration_ms = 0 /\ total_pause_ms = 0
  /\ manifest_parts = <<>>
  /\ v = 0 /\ result = NoResult /\ written = 0

\* Event lists of length 0..n, one event per (type, time) pair drawn, the
\* k-th event carrying id k.
EventLists(types, times, n) ==
  {[k \in 1..Len(s) |-> Ev(k, s[k][1], s[k][2], 0, 0)] :
     s \in SeqsUpTo(types \X times, n)}

\* ------------------------------------------------------------------------
\* SpecNorm: process_macro_file applied once and then to its own output
\* ------------------------------------------------------------------------
MaxNormLen == 3
NormTypes == {"KeyDown", "MouseMove", "LeftDown"}
NormTimes == {3, 10, 20}

InitNorm ==
  /\ lab_pc = "in"
  /\ lab_in \in EventLists(NormTypes, NormTimes, MaxNormLen)
  /\ lab_in2 = <<>> /\ lab_gap = 0
  /\ lab_out = process_macro_file(<<>>) /\ lab_out2 = process_macro_file(<<>>)
  /\ ProgOff

NormOnce ==
  /\ lab_pc = "in"
  /\ lab_out' = process_macro_file(lab_in)
  /\ lab_pc' = "once"
  /\ UNCHANGED <<lab_in, lab_in2, lab_gap, lab_out2, progVars>>

NormTwice ==
  /\ lab_pc = "once"
  /\ lab_out2' = process_macro_file(lab_out.events)
  /\ lab_pc' = "twice"
  /\ UNCHANGED <<lab_in, lab_in2, lab_gap, lab_out, progVars>>

NextNorm == NormOnce \/ NormTwice

SpecNorm == InitNorm /\ [][NextNorm]_vars

\* C5: normalising an already normalised trace is a no-op: the second
\* process_macro_file returns the same events, Times and duration as the first.
C5_NormalizationIdempotent ==
  lab_pc = "twice" => lab_out2 = lab_out

\* ------------------------------------------------------------------------
\* SpecMerge: merge_events_with_pauses(base, new, gap)
\* ------------------------------------------------------------------------
MaxMergeLen == 2
MergeTypes == {"MouseMove", "LeftDown"}
MergeTimes == {0, 7, 20}
MergeGaps == {0, 500, 18000}

InitMerge ==
  /\ lab_pc = "in"
  /\ lab_in \in EventLists(MergeTypes, MergeTimes, MaxMergeLen)
  /\ lab_in2 \in EventLists(MergeTypes, MergeTimes, MaxMergeLen)
  /\ lab_gap \in MergeGaps
  /\ lab_out = <<>> /\ lab_out2 = <<>>
  /\ ProgOff

MergeApply ==
  /\ lab_pc = "in"
  /\ lab_out' = merge_events_with_pauses(lab_in, lab_in2, lab_gap)
  /\ lab_pc' = "done"
  /\ UNCHANGED <<lab_in, lab_in2, lab_gap, lab_out2, progVars>>

NextMerge == MergeApply

SpecMerge == InitMerge /\ [][NextMerge]_vars

\* C6: with new non-empty the result is base, unchanged, followed by new shifted
\* by one constant that puts its first event at last(base).Time + gap (gap when
\* base is empty), all Time differences inside new preserved; with new empty
\* the result is base.
C6_MergeShiftsByConstant ==
  lab_pc = "done" =>
    LET b == Len(lab_in)
        n == Len(lab_in2)
    IN IF n = 0 THEN lab_out = lab_in
       ELSE /\ Len(lab_out) = b + n
            /\ SubSeq(lab_out, 1, b) = lab_in
            /\ lab_out[b + 1].Time =
                 (IF b = 0 THEN 0 ELSE lab_in[b].Time) + lab_gap
            /\ \A j \in 1..n :
                 /\ lab_out[b + j].Time - lab_out[b + 1].Time
                      = lab_in2[j].Time - lab_in2[1].Time
                 /\ [lab_out[b + j] EXCEPT !.Time = 0] = [lab_in2[j] EXCEPT !.Time = 0]

C6_Witness ==
  /\ lab_pc = "done" /\ Len(lab_in) = 2 /\ Len(lab_in2) = 2
  /\ lab_in2[1].Time = 7 /\ lab_in2[2].Time = 20 /\ lab_gap = 500
  /\ lab_out[3].Time = lab_in[2].Time + 500

\* ------------------------------------------------------------------------
\* SpecPaths: add_desktop_mouse_paths on a normalised, click-marked trace
\* ------------------------------------------------------------------------
MaxPathLen == 4
PathTimes == {0, 1000, 125000, 250000}
\* (Type, X) of an event; Y is 100 throughout
PathKinds == {<<"MouseMove", 100>>, <<"MouseMove", 500>>,
              <<"DragStart", 100>>, <<"DragEnd", 100>>}
\* the rng.randint(-2, 2) pairs sampled; one pair is used for every point of
\* a call
NoisePairs == {<<-2, 2>>, <<1, 0>>}

PathInputs ==
  {preserve_click_integrity(
     [k \in 1..Len(s) |-> Ev(k, s[k][1][1], s[k][2], s[k][1][2], 100)]) :
     s \in {t \in SeqsUpTo(PathKinds \X PathTimes, MaxPathLen) :
              \A k \in 1..(Len(t) - 1) : t[k][2] <= t[k + 1][2]}}

\* the events at which the function draws rng.randint(2, 3)
PathDrawIndexes(evs) ==
  IF ClickTimes(evs) = {} THEN {} ELSE {k \in 1..Len(evs) : PathInsertsAt(evs, k)}

PathNoiseDraws(evs) ==
  IF PathDrawIndexes(evs) = {} THEN {[p \in 1..3 |-> <<0, 0>>]}
  ELSE {[p \in 1..3 |-> n] : n \in NoisePairs}

InitPaths ==
  /\ lab_pc = "in"
  /\ lab_in \in PathInputs
  /\ lab_in2 = <<>> /\ lab_gap = 0 /\ lab_out = <<>> /\ lab_out2 = <<>>
  /\ ProgOff

PathsApply ==
  /\ lab_pc = "in"
  /\ \E num_points \in [PathDrawIndexes(lab_in) -> 2..3], noise \in PathNoiseDraws(lab_in) :
       lab_out' = add_desktop_mouse_paths(lab_in, num_points, noise)
  /\ lab_pc' = "done"
  /\ UNCHANGED <<lab_in, lab_in2, lab_gap, lab_out2, progVars>>

NextPaths == PathsApply

SpecPaths == InitPaths /\ [][NextPaths]_vars

\* the DragEnd matching the DragStart at index s: the first DragEnd after it
\* (0: none)
MatchingDragEnd(evs, s) ==
  LET ends == {e \in (s + 1)..Len(evs) : evs[e].Type = "DragEnd"}
  IN IF ends = {} THEN 0 ELSE SetMin(ends)

\* C7: no synthetic MouseMove inserted by add_desktop_mouse_paths has a Time
\* strictly between the Time of a DragStart and the Time of its matching DragEnd.
C7_NoSyntheticMoveInsideDrag ==
  lab_pc = "done" =>
    \A s \in 1..Len(lab_out) :
      (lab_out[s].Type = "DragStart" /\ MatchingDragEnd(lab_out, s) # 0) =>
        \A p \in 1..Len(lab_out) :
          lab_out[p].id = 0 =>
            ~(lab_out[s].Time < lab_out[p].Time
              /\ lab_out[p].Time < lab_out[MatchingDragEnd(lab_out, s)].Time)

\* ========================================================================
\* The program: main, GlobalFileSelector, generate_version_for_folder
\* ========================================================================
\* The JSON files of one folder.  FileEvents(f) is what load_json_events
\* returns for file f: the empty list for a file that cannot be read or parsed.
MoveOnlyTrace ==
  <<Ev(1, "MouseMove", 0, 10, 10), Ev(2, "MouseMove", 24000, 20, 20),
    Ev(3, "MouseMove", 24100, 30, 30)>>

\* begins with a key event, which process_macro_file strips
ClickTrace ==
  <<Ev(1, "KeyDown", 100, 0, 0), Ev(2, "MouseMove", 2100, 50, 50),
    Ev(3, "LeftDown", 5100, 60, 60), Ev(4, "LeftUp", 5200, 60, 60),
    Ev(5, "MouseMove", 27100, 200, 200)>>

LongTrace ==
  <<Ev(1, "LeftDown", 0, 100, 100), Ev(2, "MouseMove", 300, 100, 100),
    Ev(3, "MouseMove", 130000, 500, 100)>>

Corpus == <<(<<>>), ClickTrace, MoveOnlyTrace, LongTrace>>

CorpusFiles == 1..Len(Corpus)

FileEvents(f) == Corpus[f]

load_json_events(f) == FileEvents(f)

\* GlobalFileSelector.__init__: file_durations, kept in ms (base_dur / 60000.0
\* minutes in the code)
file_durations(f) == process_macro_file(load_json_events(f)).duration_ms

\* AVG_INTER_FILE_PAUSE_MIN = 0.08 minutes, in ms
AVG_INTER_FILE_PAUSE_MS == 4800

\* rng.shuffle: every ordering of the list
Shuffles(files) ==
  {q \in [1..Len(files) -> {files[k] : k \in 1..Len(files)}] :
     \A a, b \in 1..Len(files) : a # b => q[a] # q[b]}

SeqFilter(files, keep) ==
  LET F[k \in 0..Len(files)] ==
        IF k = 0 THEN <<>>
        ELSE IF files[k] \in keep THEN Append(F[k - 1], files[k]) ELSE F[k - 1]
  IN F[Len(files)]

SeqSet(files) == {files[k] : k \in 1..Len(files)}

\* the entries of files at the given positions, in the order of the list
SeqAt(files, positions) ==
  LET F[k \in 0..Len(files)] ==
        IF k = 0 THEN <<>>
        ELSE IF k \in positions THEN Append(F[k - 1], files[k]) ELSE F[k - 1]
  IN F[Len(files)]

\* ------------------------------------------------------------------------
\* Init: one folder, its selector freshly constructed (lines 838-841)
\* ------------------------------------------------------------------------
MaxPoolSize == 2
Versions == 2
TargetMinutes == {1}

\* load_exemption_config: auto_detect_time_sensitive, disable_intra_pauses,
\* disable_inter_pauses
Exemption(a, b, c) ==
  [auto_detect_time_sensitive |-> a, disable_intra_pauses |-> b,
   disable_inter_pauses |-> c]

\* One run's environment: whether the free names of generate_version_for_folder
\* are bound in the module's namespace (they are not when the file is run as a
\* script) and to what, the folder's name, the exemption file, --exclude-count.
Environment(bound, special, sensitive, desktop, exemption, exclude) ==
  [names_bound |-> bound, is_special |-> special, is_time_sensitive |-> sensitive,
   is_desktop |-> desktop, exemption_config |-> exemption, exclude_count |-> exclude]

Environments ==
  {Environment(FALSE, FALSE, FALSE, FALSE, Exemption(TRUE, FALSE, FALSE), 0),
   Environment(FALSE, FALSE, FALSE, FALSE, Exemption(TRUE, FALSE, FALSE), 10),
   Environment(TRUE, TRUE, FALSE, FALSE, Exemption(TRUE, FALSE, FALSE), 0),
   Environment(TRUE, FALSE, FALSE, FALSE, Exemption(TRUE, FALSE, FALSE), 0),
   Environment(TRUE, FALSE, FALSE, FALSE, Exemption(TRUE, FALSE, FALSE), 10),
   Environment(TRUE, FALSE, FALSE, FALSE, Exemption(TRUE, FALSE, TRUE), 0),
   Environment(TRUE, FALSE, FALSE, TRUE, Exemption(TRUE, FALSE, FALSE), 0),
   Environment(TRUE, FALSE, TRUE, FALSE, Exemption(TRUE, FALSE, FALSE), 0),
   Environment(TRUE, FALSE, TRUE, FALSE, Exemption(FALSE, FALSE, FALSE), 0),
   Environment(TRUE, FALSE, TRUE, FALSE, Exemption(FALSE, TRUE, FALSE), 0)}

\* regular_files: sorted, without duplicates
Pools ==
  {SeqFilter([k \in CorpusFiles |-> k], S) :
     S \in {T \in SUBSET CorpusFiles : Cardinality(T) <= MaxPoolSize}}

LabOff ==
  /\ lab_pc = "off" /\ lab_in = <<>> /\ lab_in2 = <<>> /\ lab_gap = 0
  /\ lab_out = <<>> /\ lab_out2 = <<>>

Init ==
  /\ LabOff
  /\ \E env \in Environments :
       /\ names_bound = env.names_bound
       /\ is_special = env.is_special
       /\ is_time_sensitive = env.is_time_sensitive
       /\ is_desktop = env.is_desktop
       /\ exemption_config = env.exemption_config
       /\ exclude_count = env.exclude_count
  /\ target_minutes \in TargetMinutes
  /\ all_files \in Pools
  /\ current_pool \in Shuffles(all_files)
  /\ global_used_files = {}
  /\ selected_for_this_merge = <<>> /\ estimated_total = 0 /\ used_in_this_merge = {}
  /\ drawn_since_refill = <<>> /\ refill_missing = {}
  /\ pc = "main" /\ final_selected_files = <<>> /\ excluded_list = <<>> /\ i = 0
  /\ events = <<>> /\ macro_duration_ms = 0 /\ zb_evs = <<>> /\ file_added_afk = 0
  /\ pause_ms = 0 /\ all_events = <<>> /\ total_duration_ms = 0 /\ total_pause_ms = 0
  /\ manifest_parts = <<>>
  /\ v = 1 /\ result = NoResult /\ written = 0

\* ------------------------------------------------------------------------
\* main, lines 843-848: the call of generate_version_for_folder, which starts
\* with get_files_for_time (lines 491-496)
\* ------------------------------------------------------------------------
MainCall ==
  /\ pc = "main" /\ v <= Versions
  /\ pc' = "select"
  /\ selected_for_this_merge' = <<>> /\ estimated_total' = 0 /\ used_in_this_merge' = {}
  /\ UNCHANGED <<labVars, envVars, mainVars, all_files, current_pool, global_used_files,
                 drawn_since_refill, refill_missing,
                 final_selected_files, excluded_list, i, events, macro_duration_ms,
                 zb_evs, file_added_afk, pause_ms, all_events, total_duration_ms,
                 total_pause_ms, manifest_parts>>

\* ------------------------------------------------------------------------
\* get_files_for_time: one iteration of the while loop (lines 498-543)
\* ------------------------------------------------------------------------
TargetMs == target_minutes * 60000

\* A plausible slip: the loop runs until the whole target is reached.
LoopRunsToTarget == estimated_total < TargetMs

\* while estimated_total < target_minutes * 0.9
LoopRuns == 10 * estimated_total < 9 * TargetMs

\* lines 516-529: the files best_fit can be, given the candidates
BestFits(candidates) ==
  LET remaining_gap == TargetMs - estimated_total
      fitting == {f \in SeqSet(candidates) : file_durations(f) <= remaining_gap + 300000}
      smallest == CHOOSE k \in 1..Len(candidates) :
                    /\ \A j \in 1..Len(candidates) :
                         file_durations(candidates[k]) <= file_durations(candidates[j])
                    /\ \A j \in 1..(k - 1) :
                         file_durations(candidates[j]) > file_durations(candidates[k])
  IN IF remaining_gap < 900000
     THEN IF fitting # {} THEN fitting ELSE {candidates[smallest]}
     ELSE SeqSet(candidates)

\* A plausible slip: the file picked is not taken out of the rotation.
PickLeftInPool(pool, refilled, best_fit) ==
  /\ selected_for_this_merge' = Append(selected_for_this_merge, best_fit)
  /\ estimated_total' = estimated_total + file_durations(best_fit) + AVG_INTER_FILE_PAUSE_MS
  /\ used_in_this_merge' = used_in_this_merge \cup {best_fit}
  /\ global_used_files' = (IF refilled THEN {} ELSE global_used_files) \cup {best_fit}
  /\ current_pool' = pool
  /\ drawn_since_refill' =
       Append(IF refilled THEN <<>> ELSE drawn_since_refill, best_fit)
  /\ refill_missing' = IF refilled THEN SeqSet(all_files) \ SeqSet(drawn_since_refill)
                       ELSE refill_missing
  /\ pc' = "select"

\* lines 531-541, with the pool as it is after a possible refill
Pick(pool, refilled, best_fit) ==
  /\ selected_for_this_merge' = Append(selected_for_this_merge, best_fit)
  /\ estimated_total' = estimated_total + file_durations(best_fit) + AVG_INTER_FILE_PAUSE_MS
  /\ used_in_this_merge' = used_in_this_merge \cup {best_fit}
  /\ global_used_files' = (IF refilled THEN {} ELSE global_used_files) \cup {best_fit}
  /\ current_pool' = SeqFilter(pool, SeqSet(pool) \ {best_fit})
  /\ drawn_since_refill' =
       Append(IF refilled THEN <<>> ELSE drawn_since_refill, best_fit)
  /\ refill_missing' = IF refilled THEN SeqSet(all_files) \ SeqSet(drawn_since_refill)
                       ELSE refill_missing
  /\ pc' = "select"

SelUnchanged ==
  UNCHANGED <<labVars, envVars, mainVars, all_files,
              final_selected_files, excluded_list, i, events, macro_duration_ms,
              zb_evs, file_added_afk, pause_ms, all_events, total_duration_ms,
              total_pause_ms, manifest_parts>>

\* A plausible slip: the files already used in this merge are not left out.
CandidatesAnyFile(pool) == pool

\* lines 500 and 507: [f for f in self.current_pool if f not in used_in_this_merge]
Candidates(pool) == SeqFilter(pool, SeqSet(pool) \ used_in_this_merge)

\* line 500 finds candidates in the current pool
SelectFromPool ==
  /\ pc = "select" /\ LoopRuns
  /\ LET candidates == Candidates(current_pool)
     IN /\ candidates # <<>>
        /\ \E best_fit \in BestFits(candidates) : Pick(current_pool, FALSE, best_fit)
  /\ SelUnchanged

\* lines 502-510: no candidate, the rotation is refilled and reshuffled
SelectAfterRefill ==
  /\ pc = "select" /\ LoopRuns
  /\ Candidates(current_pool) = <<>>
  /\ all_files # <<>>
  /\ \E shuffled \in Shuffles(all_files) :
       LET unused == Candidates(shuffled)
           candidates == IF unused = <<>> THEN all_files ELSE unused
       IN \E best_fit \in BestFits(candidates) : Pick(shuffled, TRUE, best_fit)
  /\ SelUnchanged

\* lines 512-513: the pool has no file at all, the loop breaks
SelectBreak ==
  /\ pc = "select" /\ LoopRuns
  /\ all_files = <<>>
  /\ global_used_files' = {} /\ current_pool' = <<>>
  /\ refill_missing' = SeqSet(all_files) \ SeqSet(drawn_since_refill)
  /\ drawn_since_refill' = <<>>
  /\ pc' = "exclude"
  /\ UNCHANGED <<selected_for_this_merge, estimated_total, used_in_this_merge>>
  /\ SelUnchanged

\* the while condition fails: return selected_for_this_merge (line 545)
SelectReturn ==
  /\ pc = "select" /\ ~LoopRuns
  /\ pc' = "exclude"
  /\ UNCHANGED <<current_pool, global_used_files, selected_for_this_merge,
                 estimated_total, used_in_this_merge, drawn_since_refill, refill_missing>>
  /\ SelUnchanged

\* ------------------------------------------------------------------------
\* generate_version_for_folder after the selection.  main passes only regular
\* files (line 838), so no selected file is "always first/last"; no special
\* file exists (locate_special_file returns None) and --max-files is not given.
\* ------------------------------------------------------------------------
\* the pause ranges, sampled
FatiguePauses == {3000, 72000}        \* rng.randint(0, 72000)
AfkSeconds == {60, 1200}              \* rng.randint(60, 300), rng.randint(300, 1200)
within_max_s == 33                    \* args.within_max_s
within_max_pauses == 3                \* args.within_max_pauses
between_max_s == 18                   \* args.between_max_s
IntraPauses == {2000, within_max_s * 1000}      \* rng.randint(0, max_pause_s * 1000)
InterPausesTimeSensitive == {0, between_max_s * 1000}
InterPauses == {500, between_max_s * 1000}      \* rng.randint(500, between_max_s * 1000)

\* lines 554-555: nothing selected
ReturnNoFiles ==
  /\ pc = "exclude" /\ selected_for_this_merge = <<>>
  /\ result' = [returned |-> TRUE, merged_fname |-> FALSE, merged_events |-> <<>>]
  /\ pc' = "returned"
  /\ UNCHANGED <<labVars, envVars, selVars, v, written,
                 final_selected_files, excluded_list, i, events, macro_duration_ms,
                 zb_evs, file_added_afk, pause_ms, all_events, total_duration_ms,
                 total_pause_ms, manifest_parts>>

\* lines 565-574
FilesToExcludeCount(n_total) ==
  IF n_total <= 3 THEN 0 ELSE Min2(exclude_count, Max2(0, n_total - 3))

\* lines 557-589 and 627-637: rng.sample draws positions of the selection
Exclude ==
  /\ pc = "exclude" /\ selected_for_this_merge # <<>>
  /\ \E positions \in {P \in SUBSET (1..Len(selected_for_this_merge)) :
                         Cardinality(P) = FilesToExcludeCount(Len(selected_for_this_merge))} :
       LET files_to_exclude == {selected_for_this_merge[k] : k \in positions}
           kept == SeqFilter(selected_for_this_merge,
                             SeqSet(selected_for_this_merge) \ files_to_exclude)
       IN /\ excluded_list' = SeqAt(selected_for_this_merge, positions)
          /\ final_selected_files' = kept
          /\ IF kept = <<>>
             THEN /\ result' = [returned |-> TRUE, merged_fname |-> FALSE,
                                merged_events |-> <<>>]
                  /\ pc' = "returned"
             ELSE /\ result' = result
                  /\ pc' = "loop"
  /\ i' = 0 /\ all_events' = <<>> /\ total_duration_ms' = 0 /\ total_pause_ms' = 0
  /\ manifest_parts' = <<>>
  /\ UNCHANGED <<labVars, envVars, selVars, v, written, events, macro_duration_ms,
                 zb_evs, file_added_afk, pause_ms>>

\* the file of loop index i (0-based, as enumerate gives it)
CurrentFile == final_selected_files[i + 1]

InLoop == pc = "loop" /\ i < Len(final_selected_files)

LoadUnchanged ==
  UNCHANGED <<labVars, envVars, selVars, mainVars, final_selected_files, excluded_list,
              pause_ms, all_events, total_duration_ms, total_pause_ms, manifest_parts>>

\* lines 640-643: the file yields no events, continue
LoadSkip ==
  /\ InLoop
  /\ process_macro_file(load_json_events(CurrentFile)).events = <<>>
  /\ i' = i + 1
  /\ UNCHANGED <<pc, events, macro_duration_ms, zb_evs, file_added_afk>>
  /\ LoadUnchanged

\* lines 640-647 when is_special is not bound: NameError
LoadRaise ==
  /\ InLoop
  /\ process_macro_file(load_json_events(CurrentFile)).events # <<>>
  /\ ~names_bound
  /\ events' = process_macro_file(load_json_events(CurrentFile)).events
  /\ macro_duration_ms' = process_macro_file(load_json_events(CurrentFile)).duration_ms
  /\ file_added_afk' = 0
  /\ pc' = "raised"
  /\ UNCHANGED <<i, zb_evs>>
  /\ LoadUnchanged

\* lines 640-647 and 687-690 when is_special is true
LoadSpecial ==
  /\ InLoop
  /\ process_macro_file(load_json_events(CurrentFile)).events # <<>>
  /\ names_bound /\ is_special
  /\ events' = process_macro_file(load_json_events(CurrentFile)).events
  /\ macro_duration_ms' = process_macro_file(load_json_events(CurrentFile)).duration_ms
  /\ file_added_afk' = 0
  /\ zb_evs' = process_macro_file(load_json_events(CurrentFile)).events
  /\ pc' = "inter"
  /\ UNCHANGED i
  /\ LoadUnchanged

\* lines 640-654 / 661-663: preserve_click_integrity, add_mouse_jitter,
\* add_desktop_mouse_paths (desktop folders), add_reaction_variance
Humanize ==
  /\ InLoop
  /\ process_macro_file(load_json_events(CurrentFile)).events # <<>>
  /\ names_bound /\ ~is_special
  /\ LET loaded == process_macro_file(load_json_events(CurrentFile))
         marked == preserve_click_integrity(loaded.events)
     IN /\ events' = loaded.events
        /\ macro_duration_ms' = loaded.duration_ms
        /\ \E jit \in [JitterIndexes(marked) -> JitterRange \X JitterRange] :
             LET jittered == add_mouse_jitter(marked, jit)
             IN \E num_points \in [(IF is_desktop THEN PathDrawIndexes(jittered) ELSE {})
                                     -> 2..3],
                   noise \in (IF is_desktop THEN PathNoiseDraws(jittered)
                              ELSE {[p \in 1..3 |-> <<0, 0>>]}) :
                  LET pathed == IF is_desktop
                                THEN add_desktop_mouse_paths(jittered, num_points, noise)
                                ELSE jittered
                  IN \E d \in [VarianceIndexes(pathed) -> {0} \cup VarianceDeltas] :
                       zb_evs' = add_reaction_variance(pathed, d)
  /\ file_added_afk' = 0
  /\ pc' = "fatigue"
  /\ UNCHANGED i
  /\ LoadUnchanged

StageUnchanged ==
  UNCHANGED <<labVars, envVars, selVars, mainVars, final_selected_files, excluded_list,
              i, events, macro_duration_ms, pause_ms, all_events, total_duration_ms,
              total_pause_ms, manifest_parts>>

\* the budget every stage of the loop body asks for
Budget == calculate_afk_budget(total_duration_ms, total_pause_ms)

\* lines 655-659 / 664-667 and the re-normalisation of line 669
FatigueRenormalize ==
  /\ pc = "fatigue"
  /\ IF is_time_sensitive
     THEN /\ zb_evs' = process_macro_file(zb_evs).events
          /\ file_added_afk' = file_added_afk
     ELSE \E skip \in BOOLEAN,
             locs \in {L \in SUBSET FatigueSafeLocations(zb_evs) : Cardinality(L) <= 3} :
            \E base_pause \in [locs -> FatiguePauses] :
              LET r == add_time_of_day_fatigue(zb_evs, skip, locs, base_pause, Budget)
              IN /\ zb_evs' = process_macro_file(r.events).events
                 /\ file_added_afk' = file_added_afk + r.added
  /\ pc' = "intra"
  /\ StageUnchanged

\* lines 672-680
IntraPause ==
  /\ pc = "intra"
  /\ IF is_time_sensitive /\ ~exemption_config.disable_intra_pauses
     THEN \E locs \in {L \in SUBSET IntraSafeLocations(zb_evs) :
                         Cardinality(L) <= within_max_pauses} :
            \E raw_pause \in [locs -> IntraPauses] :
              LET r == insert_intra_pauses(zb_evs, TRUE, locs, raw_pause, Budget)
              IN /\ zb_evs' = r.events
                 /\ file_added_afk' = file_added_afk + r.added
     ELSE UNCHANGED <<zb_evs, file_added_afk>>
  /\ pc' = "afk"
  /\ StageUnchanged

\* lines 682-686: rng.random() >= 0.5, no AFK pause
AfkSkip ==
  /\ pc = "afk"
  /\ pc' = "inter"
  /\ UNCHANGED <<zb_evs, file_added_afk>>
  /\ StageUnchanged

\* lines 682-686: rng.random() < 0.5
AfkPause ==
  /\ pc = "afk"
  /\ \E afk_seconds \in AfkSeconds, insert_idx \in AfkInsertIndexes(zb_evs) :
       LET r == add_afk_pause(zb_evs, afk_seconds, insert_idx, Budget)
       IN /\ zb_evs' = r.events
          /\ file_added_afk' = file_added_afk + r.added
  /\ pc' = "inter"
  /\ StageUnchanged

\* line 634 (the local is computed and never read)
disable_intra_pauses ==
  exemption_config.disable_intra_pauses
    \/ (is_time_sensitive /\ exemption_config.auto_detect_time_sensitive)

\* line 635
disable_inter_pauses ==
  exemption_config.disable_inter_pauses
    \/ (is_time_sensitive /\ exemption_config.auto_detect_time_sensitive)

\* lines 693-703: the raw pauses rng can draw
RawInterPauses ==
  IF is_time_sensitive /\ exemption_config.disable_inter_pauses THEN {100, 500}
  ELSE IF is_time_sensitive THEN InterPausesTimeSensitive
  ELSE InterPauses

\* lines 690-724: the inter-file pause, the merge, the counters
InterPauseMerge ==
  /\ pc = "inter"
  /\ \E raw_pause \in RawInterPauses :
       LET p_ms == IF i > 0 /\ ~disable_inter_pauses THEN Min2(raw_pause, Budget) ELSE 0
           merged == merge_events_with_pauses(all_events, zb_evs, p_ms)
       IN /\ pause_ms' = p_ms
          /\ total_pause_ms' = total_pause_ms + p_ms + file_added_afk
          /\ all_events' = merged
          /\ manifest_parts' = Append(manifest_parts,
               [file |-> CurrentFile, duration_ms |-> macro_duration_ms,
                start_time_ms |-> IF zb_evs # <<>>
                                  THEN merged[Len(merged) - Len(zb_evs) + 1].Time ELSE 0,
                end_time_ms |-> IF merged # <<>> THEN merged[Len(merged)].Time ELSE 0,
                inter_pause_ms |-> p_ms])
  /\ events' = zb_evs
  /\ total_duration_ms' = total_duration_ms + macro_duration_ms
  /\ i' = i + 1
  /\ pc' = "loop"
  /\ UNCHANGED <<labVars, envVars, selVars, mainVars, final_selected_files, excluded_list,
                 macro_duration_ms, zb_evs, file_added_afk>>

FinishUnchanged ==
  UNCHANGED <<labVars, envVars, selVars, v, written, final_selected_files, excluded_list,
              i, events, macro_duration_ms, zb_evs, file_added_afk, pause_ms, all_events,
              total_duration_ms, total_pause_ms, manifest_parts>>

\* lines 726-764 when final_files is not bound: NameError
FinishRaise ==
  /\ pc = "loop" /\ i = Len(final_selected_files)
  /\ ~names_bound
  /\ pc' = "raised"
  /\ UNCHANGED result
  /\ FinishUnchanged

\* lines 726-773: the version is returned
FinishReturn ==
  /\ pc = "loop" /\ i = Len(final_selected_files)
  /\ names_bound
  /\ result' = [returned |-> TRUE, merged_fname |-> TRUE, merged_events |-> all_events]
  /\ pc' = "returned"
  /\ FinishUnchanged

\* main, lines 850-869: a version without a name is skipped, any other is
\* written; the locals of the call are gone
MainHandle ==
  /\ pc = "returned"
  /\ written' = IF result.merged_fname THEN written + 1 ELSE written
  /\ v' = v + 1
  /\ result' = NoResult
  /\ pc' = "main"
  /\ final_selected_files' = <<>> /\ excluded_list' = <<>> /\ i' = 0
  /\ events' = <<>> /\ macro_duration_ms' = 0 /\ zb_evs' = <<>> /\ file_added_afk' = 0
  /\ pause_ms' = 0 /\ all_events' = <<>> /\ total_duration_ms' = 0 /\ total_pause_ms' = 0
  /\ manifest_parts' = <<>>
  /\ selected_for_this_merge' = <<>> /\ estimated_total' = 0 /\ used_in_this_merge' = {}
  /\ UNCHANGED <<labVars, envVars, all_files, current_pool, global_used_files,
                 drawn_since_refill, refill_missing>>

Next ==
  \/ MainCall
  \/ SelectFromPool \/ SelectAfterRefill \/ SelectBreak \/ SelectReturn
  \/ ReturnNoFiles \/ Exclude
  \/ LoadSkip \/ LoadRaise \/ LoadSpecial \/ Humanize
  \/ FatigueRenormalize \/ IntraPause \/ AfkSkip \/ AfkPause
  \/ InterPauseMerge
  \/ FinishRaise \/ FinishReturn
  \/ MainHandle

Spec == Init /\ [][Next]_vars

\* ------------------------------------------------------------------------
\* Properties of the program
\* ------------------------------------------------------------------------
InChain == pc \in {"intra", "afk", "inter"}

\* pause time injected so far in this version, the stages already run on the
\* trace in hand included
InjectedSoFar == total_pause_ms + (IF InChain THEN file_added_afk ELSE 0)

\* recorded event time so far in this version; the trace in hand counts in
\* full, the reading most favourable to the code
RealSoFar == total_duration_ms + (IF InChain THEN macro_duration_ms ELSE 0)

\* C1: at every intermediate point of a version the injected pause time is at
\* most 2/3 of the real recorded event time accumulated so far.
C1_BudgetInvariant ==
  pc \in {"loop", "intra", "afk", "inter", "returned"} =>
    3 * InjectedSoFar <= 2 * RealSoFar

\* C2: in the merged event list a version returns, consecutive Times never
\* decrease.
C2_MergedTimesMonotone ==
  pc = "returned" => Monotone(result.merged_events)

\* a version of two traces with injected pauses is returned, and inside one of
\* its traces reaction variance has moved a recorded event past its successor
C2_Witness ==
  /\ pc = "returned" /\ result.merged_fname
  /\ Len(manifest_parts) = 2 /\ total_pause_ms > 0
  /\ \E p \in 1..Len(manifest_parts), k \in 1..(Len(result.merged_events) - 1) :
       /\ manifest_parts[p].start_time_ms <= result.merged_events[k].Time
       /\ result.merged_events[k].Time < result.merged_events[k + 1].Time
       /\ result.merged_events[k + 1].Time <= manifest_parts[p].end_time_ms
       /\ result.merged_events[k].id > result.merged_events[k + 1].id

\* the position of the recorded event id in a trace (0: not there)
PosOf(evs, id) ==
  IF \E k \in 1..Len(evs) : evs[k].id = id
  THEN CHOOSE k \in 1..Len(evs) : evs[k].id = id
  ELSE 0

\* C3: after the whole humanisation chain every PROTECTED event is as far from
\* its trace's first event as it was in the normalised source trace.
C3_ProtectedOffsetsKept ==
  (pc = "inter" /\ ~is_special) =>
    \A k \in 1..Len(zb_evs) :
      zb_evs[k].PROTECTED =>
        /\ PosOf(events, zb_evs[k].id) # 0
        /\ zb_evs[k].Time - zb_evs[1].Time
             = events[PosOf(events, zb_evs[k].id)].Time - events[1].Time

\* C4: in a pool of more than one file no file is drawn twice between two
\* refills of the rotation, and the rotation is refilled only after every file
\* has been drawn since the previous refill.
C4_RotationFair ==
  Len(all_files) > 1 =>
    /\ \A a, b \in 1..Len(drawn_since_refill) :
         a # b => drawn_since_refill[a] # drawn_since_refill[b]
    /\ refill_missing = {}

\* C8: the humanised trace handed to the merge keeps the recorded events in the
\* order they have in the normalised trace.
C8_RecordedOrderKept ==
  (pc = "inter" /\ ~is_special) =>
    \A p, q \in 1..Len(zb_evs) :
      (p < q /\ zb_evs[p].id # 0 /\ zb_evs[q].id # 0) =>
        PosOf(events, zb_evs[p].id) < PosOf(events, zb_evs[q].id)

\* the pool has no file that yields events
NoUsableTrace ==
  \A f \in SeqSet(all_files) : process_macro_file(load_json_events(f)).events = <<>>

\* C9: a pool without a usable trace makes get_files_for_time return an empty
\* sequence and generate_version_for_folder return its empty result without
\* raising, and main writes nothing.
C9_EmptyPoolEmptyResult ==
  NoUsableTrace =>
    /\ pc = "exclude" => selected_for_this_merge = <<>>
    /\ pc # "raised"
    /\ pc = "returned" => ~result.merged_fname
    /\ written = 0

\* a file of the final selection that was skipped as yielding no events
SkippedATrace ==
  \E k \in 1..Min2(i, Len(final_selected_files)) :
    load_json_events(final_selected_files[k]) = <<>>

\* C10: a trace that cannot be read is never fatal: after it is skipped the
\* version is still built and generate_version_for_folder does not raise.
C10_UnreadableTraceNotFatal ==
  SkippedATrace => pc # "raised"

\* the estimate get_files_for_time had before its last pick
EstimateBeforeLastPick ==
  estimated_total
    - (file_durations(selected_for_this_merge[Len(selected_for_this_merge)])
         + AVG_INTER_FILE_PAUSE_MS)

LongTargets == {178}

SelectCalls ==
  {<<pool, t>> : pool \in Pools, t \in TargetMinutes}
    \cup {<<(<<1>>), t>> : t \in LongTargets}

InitSelect ==
  /\ LabOff
  /\ names_bound = FALSE /\ is_special = FALSE /\ is_time_sensitive = FALSE
  /\ is_desktop = FALSE /\ exemption_config = Exemption(TRUE, FALSE, FALSE)
  /\ exclude_count = 0
  /\ \E call \in SelectCalls : all_files = call[1] /\ target_minutes = call[2]
  /\ current_pool \in Shuffles(all_files)
  /\ global_used_files = {}
  /\ selected_for_this_merge = <<>> /\ estimated_total = 0 /\ used_in_this_merge = {}
  /\ drawn_since_refill = <<>> /\ refill_missing = {}
  /\ pc = "select" /\ final_selected_files = <<>> /\ excluded_list = <<>> /\ i = 0
  /\ events = <<>> /\ macro_duration_ms = 0 /\ zb_evs = <<>> /\ file_added_afk = 0
  /\ pause_ms = 0 /\ all_events = <<>> /\ total_duration_ms = 0 /\ total_pause_ms = 0
  /\ manifest_parts = <<>>
  /\ v = 1 /\ result = NoResult /\ written = 0

NextSelect == SelectFromPool \/ SelectAfterRefill \/ SelectBreak \/ SelectReturn

SpecSelect == InitSelect /\ [][NextSelect]_vars

\* C12: get_files_for_time ends on every pool, a pool of zero-duration traces
\* included, and the number of picks it returns stays under a hard cap on the
\* sequence length (2000 picks at the most) whatever the target is.
C12_PicksUnderHardCap ==
  Len(selected_for_this_merge) <= 2000

\* the stage that pc names asks for a budget when it runs
StageAsksBudget ==
  \/ pc = "fatigue" /\ ~is_time_sensitive
  \/ pc = "intra" /\ is_time_sensitive /\ ~exemption_config.disable_intra_pauses
  \/ pc = "afk"
  \/ pc = "inter" /\ i > 0 /\ ~disable_inter_pauses

\* C13: the budget a pause-producing stage clamps against accounts for every
\* pause applied before it in the version, the earlier stages of the same
\* trace included: it is max(0, 2/3 x real time so far - all pause injected so
\* far).
C13_BudgetSeesEarlierStages ==
  StageAsksBudget =>
    Budget = calculate_afk_budget(total_duration_ms, total_pause_ms + file_added_afk)

\* ------------------------------------------------------------------------
\* SpecPause: one pause inserted by add_time_of_day_fatigue,
\* insert_intra_pauses or add_afk_pause into a trace marked by
\* preserve_click_integrity.  lab_gap is the 1-based index of the event the
\* pause is put after (0: before the first event).
\* ------------------------------------------------------------------------
MaxPauseLen == 3
PauseTypes == {"MouseMove", "LeftDown"}
PauseTimes == {0, 500, 5000}
PauseBudgets == {0, 2500, 100000}

PauseInputs ==
  {preserve_click_integrity(evs) :
     evs \in {e \in EventLists(PauseTypes, PauseTimes, MaxPauseLen) :
                e # <<>> /\ Monotone(e)}}

InitPause ==
  /\ lab_pc = "in"
  /\ lab_in \in PauseInputs
  /\ lab_in2 = <<>> /\ lab_gap = 0
  /\ lab_out = [events |-> <<>>, added |-> 0] /\ lab_out2 = <<>>
  /\ ProgOff

PauseFatigue ==
  /\ lab_pc = "in"
  /\ \E g \in FatigueSafeLocations(lab_in), base_pause \in FatiguePauses,
        budget \in PauseBudgets :
       /\ lab_out' = add_time_of_day_fatigue(lab_in, FALSE, {g}, [x \in {g} |-> base_pause],
                                             budget)
       /\ lab_gap' = g
  /\ lab_pc' = "fatigue"
  /\ UNCHANGED <<lab_in, lab_in2, lab_out2, progVars>>

PauseIntra ==
  /\ lab_pc = "in"
  /\ \E g \in IntraSafeLocations(lab_in), raw_pause \in IntraPauses,
        budget \in PauseBudgets :
       /\ lab_out' = insert_intra_pauses(lab_in, TRUE, {g}, [x \in {g} |-> raw_pause], budget)
       /\ lab_gap' = g
  /\ lab_pc' = "intra"
  /\ UNCHANGED <<lab_in, lab_in2, lab_out2, progVars>>

PauseAfk ==
  /\ lab_pc = "in"
  /\ \E insert_idx \in AfkInsertIndexes(lab_in), afk_seconds \in AfkSeconds,
        budget \in PauseBudgets :
       /\ lab_out' = add_afk_pause(lab_in, afk_seconds, insert_idx, budget)
       /\ lab_gap' = insert_idx
  /\ lab_pc' = "afk"
  /\ UNCHANGED <<lab_in, lab_in2, lab_out2, progVars>>

NextPause == PauseFatigue \/ PauseIntra \/ PauseAfk

SpecPause == InitPause /\ [][NextPause]_vars

\* a pause has been inserted by the stage lab_pc names
PauseInserted == lab_pc \in {"fatigue", "intra", "afk"} /\ lab_out.added > 0

\* the event the pause is put after is at least 1000 ms from every protected
\* event's time
PauseAwayFromProtected ==
  lab_gap >= 1 =>
    \A ct \in ClickTimes(lab_in) :
      lab_in[lab_gap].Time - ct >= 1000 \/ ct - lab_in[lab_gap].Time >= 1000

\* the events after the insertion point are later by exactly the pause and
\* nothing else has changed
PauseShiftsSuffixOnly ==
  /\ Len(lab_out.events) = Len(lab_in)
  /\ \A k \in 1..Len(lab_in) :
       lab_out.events[k] =
         IF k > lab_gap THEN [lab_in[k] EXCEPT !.Time = @ + lab_out.added] ELSE lab_in[k]

\* C14: every pause inserted inside a trace by add_time_of_day_fatigue,
\* insert_intra_pauses or add_afk_pause goes to a position whose neighbouring
\* event is not within 1000 ms of any protected event's time, shifts all
\* events after the insertion point by exactly the pause amount and leaves the
\* events before it unchanged.
C14_PauseAtSafePosition ==
  PauseInserted => PauseAwayFromProtected /\ PauseShiftsSuffixOnly

\* C15: the list one get_files_for_time call returns holds a file twice only
\* if every file of the pool already comes before the second occurrence,
\* whatever state earlier calls left in the selector.
C15_NoRepeatBeforePoolExhausted ==
  \A k \in 1..Len(selected_for_this_merge) :
    (\E j \in 1..(k - 1) : selected_for_this_merge[j] = selected_for_this_merge[k]) =>
      {selected_for_this_merge[j] : j \in 1..(k - 1)} = SeqSet(all_files)

\* the second call on a selector over two files returns a list that repeats a
\* file
C15_Witness ==
  /\ pc = "exclude" /\ v = 2 /\ Len(all_files) = 2
  /\ \E j, k \in 1..Len(selected_for_this_merge) :
       j < k /\ selected_for_this_merge[j] = selected_for_this_merge[k]

\* the random exclusion of this version has run
ExclusionDone ==
  /\ pc \in {"loop", "fatigue", "intra", "afk", "inter", "returned", "raised"}
  /\ selected_for_this_merge # <<>>

\* C16: random exclusion keeps at least 3 regular files: from a selection of 3
\* or fewer entries none is removed, from a longer one at most
\* min(exclude_count, n - 3) are removed and at least 3 entries remain, also
\* when the selection holds the same file more than once.
C16_ExclusionKeepsThree ==
  ExclusionDone =>
    LET n == Len(selected_for_this_merge)
        removed == n - Len(final_selected_files)
    IN IF n <= 3 THEN removed = 0
       ELSE removed <= Min2(exclude_count, n - 3) /\ Len(final_selected_files) >= 3

\* C17: a non-empty result of process_macro_file has its first event at Time
\* 0 and the returned duration is the last event's Time, also for traces whose
\* earliest events are KeyDown/KeyUp events.
C17_NormalizedStartsAtZero ==
  (lab_pc = "once" /\ lab_out.events # <<>>) =>
    /\ lab_out.events[1].Time = 0
    /\ lab_out.duration_ms = lab_out.events[Len(lab_out.events)].Time

\* C18: after construction and after every get_files_for_time call (and
\* between the iterations of its loop) current_pool and global_used_files are
\* disjoint, together they are exactly all_files, and current_pool holds no
\* file twice.
C18_RotationStatePartition ==
  /\ SeqSet(current_pool) \cap global_used_files = {}
  /\ SeqSet(current_pool) \cup global_used_files = SeqSet(all_files)
  /\ \A a, b \in 1..Len(current_pool) : a # b => current_pool[a] # current_pool[b]

\* the second call has returned and left a rotation that is partly used
C18_Witness ==
  /\ pc = "exclude" /\ v = 2
  /\ current_pool # <<>> /\ global_used_files # {}

\* C19: no pause is injected before real event time has been accumulated:
\* the first trace of a version that has events gets 0 ms from the fatigue,
\* intra-trace, AFK and inter-file pauses, so the injected total is 0 until
\* that trace's duration has been added to total_duration_ms.
C19_NoPauseBeforeRealTime ==
  /\ Len(manifest_parts) = 0 => file_added_afk = 0
  /\ Len(manifest_parts) <= 1 => total_pause_ms = 0
  /\ Len(manifest_parts) >= 1 => manifest_parts[1].inter_pause_ms = 0
  /\ total_duration_ms = 0 => total_pause_ms = 0

\* the first trace of a version has gone through the humanisation chain after
\* an unreadable file was skipped, and has been merged
C19_Witness ==
  /\ pc = "loop" /\ names_bound /\ ~is_special
  /\ Len(manifest_parts) = 1 /\ i = 2 /\ total_duration_ms > 0

\* C20: when intra-file pauses are disabled (disable_intra_pauses of the
\* exemption config, or a time-sensitive folder with auto_detect_time_sensitive)
\* no stage injects a pause inside a trace: the pause added per trace is 0.
C20_NoPauseInsideTraceWhenDisabled ==
  disable_intra_pauses => file_added_afk = 0

====
